---- MODULE Spec2Model ----
(***************************************************************************)
(* Model of the qubes-builder package pipeline:                            *)
(*   - qubesbuilder/cli/cli_package.py: the `package` command group, which *)
(*     runs one stage (or all stages) over every (component, distribution) *)
(*     pair by calling run(stage) on the pair's plugin chain;              *)
(*   - qubesbuilder/plugins/publish_archlinux/__init__.py: the Archlinux   *)
(*     publish plugin (run, publish, unpublish).                           *)
(* The provenance store, the executor and the other plugins live outside   *)
(* these two files and are modelled from their documented contract.        *)
(***************************************************************************)
EXTENDS Integers, Sequences, FiniteSets, TLC

(***************************************************************************)
(* Bounds of the model.                                                    *)
(***************************************************************************)
\* Last day of the clock (the clock counts whole days).
MaxDay == 6
\* Longest repository-publish list a record may hold.
MaxEntries == 3
\* Number of commands of the `package` group.
MaxCmds == 2
\* Number of direct runs of the publish plugin.
MaxRuns == 3

(***************************************************************************)
(* Program constants.                                                      *)
(***************************************************************************)
\* qubesbuilder.config.STAGES, iterated by _all_package_stage.
STAGES == <<"fetch", "prep", "build", "post", "verify", "sign", "publish">>

\* The plugin chain _component_stage builds for every pair, in list order.
PluginChain == <<"source", "build", "sign", "publish">>

\* Stages each plugin of the chain acts on; run(stage) is a no-op otherwise.
PluginStages(plugin) ==
    CASE plugin = "source"  -> {"fetch"}
      [] plugin = "build"   -> {"prep", "build"}
      [] plugin = "sign"    -> {"sign"}
      [] plugin = "publish" -> {"publish"}

\* config.min_age_days.
MinAgeDays == 5

\* Days that pass at once between two commands.
DaySteps == {3, 5}

\* The stable channel and the staging channels named by run's gate.
StableChannel == "current"
StagingChannels == {"current-testing", "security-testing"}

\* Channels validate_repository_publish accepts.
ValidChannels == {StableChannel} \cup StagingChannels

\* A channel name validate_repository_publish refuses.
BogusChannel == "bogus"

\* Absent value (Python None / empty string).
None == "none"

(***************************************************************************)
(* The inputs of a run: obj.components x obj.distributions, the build      *)
(* directories of each pair (parameters["build"]) and the packages each    *)
(* build directory produces (build_info["pkgs"]).                          *)
(***************************************************************************)
Components == <<"c1", "c2">>
Distributions == <<"d1">>

Pair(ci, di) == <<Components[ci], Distributions[di]>>
Pairs == {Pair(ci, di) : ci \in 1..Len(Components), di \in 1..Len(Distributions)}

\* parameters["build"] of a pair: its build directories, mangled.
BuildDirs(pair) ==
    IF pair[1] = "c1" THEN <<"b1", "b2">> ELSE <<"b3">>

Basenames == {"b1", "b2", "b3"}

\* build_info["pkgs"] of a basename.
PkgsOf(b) ==
    CASE b = "b1" -> <<"p1", "p2">>
      [] b = "b2" -> <<"p3">>
      [] b = "b3" -> <<"p4">>

Hashes == {"H1", "H2"}

(***************************************************************************)
(* Provenance records.  A record is empty ({} in the code) or holds a      *)
(* source-hash and a repository-publish list of [name, timestamp].         *)
(***************************************************************************)
NoInfo == [present |-> FALSE, hash |-> None, rp |-> <<>>]

Info(h, rp) == [present |-> TRUE, hash |-> h, rp |-> rp]

Entry(c, t) == [name |-> c, ts |-> t]

RECURSIVE SeqFilterOut(_, _)
\* [r for r in rp if r["name"] != c]
SeqFilterOut(rp, c) ==
    IF rp = <<>> THEN <<>>
    ELSE IF Head(rp).name = c THEN SeqFilterOut(Tail(rp), c)
         ELSE <<Head(rp)>> \o SeqFilterOut(Tail(rp), c)

\* [r["name"] for r in rp]
ChannelNames(rp) == {rp[n].name : n \in 1..Len(rp)}

\* Number of entries of rp for channel c.
CountOf(rp, c) == Cardinality({n \in 1..Len(rp) : rp[n].name = c})

(***************************************************************************)
(* Python values passed as repository_publish to publish()/unpublish():    *)
(* a channel name (str) or a repository-publish entry (dict).  The target  *)
(* directory is the f-string of the value, so a dict names a directory     *)
(* that is no channel's directory.                                         *)
(***************************************************************************)
PyStr(c) == [kind |-> "str", name |-> c, ts |-> 0]
PyDict(e) == [kind |-> "dict", name |-> e.name, ts |-> e.ts]

\* f"{qubes_release}/{repository_publish}/{package_set}/{dist.name}"
TargetDir(v) ==
    IF v.kind = "str" THEN <<v.name>>
    ELSE <<"{'name':", v.name, "'timestamp':", v.ts, "}">>

\* The package directory of channel c.
ChannelDir(c) == TargetDir(PyStr(c))

VARIABLES
    now,        \* the clock, in whole days
    buildinfo,  \* build-stage provenance record of each basename
    pubinfo,    \* publish-stage provenance record of each basename
    keyring,    \* pairs whose sign artifacts directory exists
    files,      \* package files linked in a target directory: <<dir, pkg>>
    sigs,       \* signature files linked in a target directory: <<dir, pkg>>
    dbs,        \* target directories whose index (qubes.db) exists
    indexed,    \* packages listed in the index of a directory: <<dir, pkg>>
    orch,       \* the running command (cli_package.py)
    run,        \* the running plugin run
    snap,       \* the store and the repository as they were when run began
    ncmds,      \* commands started so far
    susp        \* the plugin run of a concurrent process while it is not scheduled

vars == <<now, buildinfo, pubinfo, keyring, files, sigs, dbs, indexed,
          orch, run, snap, ncmds, susp>>

storeVars == <<buildinfo, pubinfo, keyring>>
repoVars == <<files, sigs, dbs, indexed>>

(***************************************************************************)
(* Configuration of a command (obj.config / self.config) and whether the   *)
(* component has packages for the stage.  Each value takes one branch of   *)
(* the checks run() makes before it touches anything.                      *)
(***************************************************************************)
Cfg(key, gpg, dflt, pkgs) ==
    [sign_key |-> key, gpg_client |-> gpg, default_repo |-> dflt, has_pkgs |-> pkgs]

FullCfg == Cfg(TRUE, TRUE, "current-testing", TRUE)

ConfigSet ==
    { FullCfg,
      Cfg(FALSE, TRUE, "current-testing", TRUE),
      Cfg(TRUE, FALSE, "current-testing", TRUE),
      Cfg(TRUE, TRUE, None, TRUE),
      Cfg(TRUE, TRUE, "current-testing", FALSE) }

\* Values of the repository_publish argument of run().
RepoArgs == ValidChannels \cup {BogusChannel, None}

(***************************************************************************)
(* The record of a plugin run: its arguments, its position (pc, the loop   *)
(* indexes i, j, k), its locals and, once it has returned, its outcome.    *)
(* execd holds the basenames the run handed a command list to the executor *)
(* for, okpub the basenames whose publish() call returned normally,        *)
(* verified the basenames whose signature check passed and removed the     *)
(* <<directory, package>> a repo-remove of the run was given.              *)
(***************************************************************************)
RunRec(pc, pair, stage, plugin, cfg, rp, ignore, unpub, outcome, note) ==
    [pc |-> pc, pair |-> pair, stage |-> stage, plugin |-> plugin, cfg |-> cfg,
     repo |-> rp, ignore |-> ignore, unpub |-> unpub,
     i |-> 1, j |-> 1, k |-> 1, info |-> NoInfo, casc |-> <<>>,
     tgt |-> PyStr(None), ret |-> None,
     outcome |-> outcome, note |-> note, execd |-> {}, okpub |-> {},
     verified |-> {}, removed |-> {}]

IdleRun ==
    RunRec("idle", <<None, None>>, None, None, FullCfg, None, FALSE, FALSE, None, None)

IdleOrch ==
    [mode |-> "idle", status |-> "idle", cfg |-> FullCfg,
     si |-> 1, ci |-> 1, di |-> 1, gi |-> 1, began |-> {}, ended |-> {}]

Snapshot == [pubinfo |-> pubinfo, buildinfo |-> buildinfo, files |-> files,
             sigs |-> sigs, dbs |-> dbs, indexed |-> indexed]

NoSnap == [pubinfo |-> [b \in Basenames |-> NoInfo],
           buildinfo |-> [b \in Basenames |-> NoInfo],
           files |-> {}, sigs |-> {}, dbs |-> {}, indexed |-> {}]

(***************************************************************************)
(* The provenance store (get/save/delete_dist_artifacts_info) and the      *)
(* predicates of the PublishPlugin base class.                             *)
(***************************************************************************)
\* is_published(basename, repository)
IsPublished(b, c) ==
    /\ pubinfo[b].present
    /\ c \in ChannelNames(pubinfo[b].rp)

\* Whole days between a recorded timestamp and the current time.
AgeDays(ts) == now - ts

\* can_be_published_in_stable(basename, ignore_min_age)
CanBePublishedInStable(b, ignore) ==
    /\ pubinfo[b].present
    /\ \E n \in 1..Len(pubinfo[b].rp) :
          /\ pubinfo[b].rp[n].name \in StagingChannels
          /\ (ignore \/ AgeDays(pubinfo[b].rp[n].ts) >= MinAgeDays)

\* validate_repository_publish(repository_publish) does not raise
IsValidRepository(c) == c \in ValidChannels

(***************************************************************************)
(* ArchlinuxPublishPlugin.run, up to the loops over the build directories: *)
(* the checks that return or raise before anything is touched.             *)
(***************************************************************************)
\* AllPublished with any() in place of all().
AnyPublished(pair, r) ==
    \E n \in 1..Len(BuildDirs(pair)) : IsPublished(BuildDirs(pair)[n], r)

\* Lines 222-228 and 303-309: every build directory is listed as published.
AllPublished(pair, r) ==
    \A n \in 1..Len(BuildDirs(pair)) : IsPublished(BuildDirs(pair)[n], r)

\* StableGateRefuses with any() in place of all(): one build directory that
\* can be published in stable lets the whole pair through.
StableGateRefusesAny(pair, r, ignore) ==
    /\ r = StableChannel
    /\ ~\E n \in 1..Len(BuildDirs(pair)) :
           CanBePublishedInStable(BuildDirs(pair)[n], ignore)

\* Lines 235-241: the stable channel is requested and not every build
\* directory can be published in stable.
StableGateRefuses(pair, r, ignore) ==
    /\ r = StableChannel
    /\ ~\A n \in 1..Len(BuildDirs(pair)) :
           CanBePublishedInStable(BuildDirs(pair)[n], ignore)

\* repository_publish or self.config.repository_publish.get("components")
EffectiveRepo(cfg, rparg) == IF rparg # None THEN rparg ELSE cfg.default_repo

Preflight(pair, stage, cfg, rparg, ignore, unpub) ==
    LET r == EffectiveRepo(cfg, rparg)
        Ret(outcome, note) ==
            RunRec("done", pair, stage, "publish", cfg, r, ignore, unpub, outcome, note)
        Go(pc) ==
            RunRec(pc, pair, stage, "publish", cfg, r, ignore, unpub, None, None)
    IN  IF stage # "publish" \/ ~cfg.has_pkgs THEN Ret("ok", "skip")
        ELSE IF ~cfg.sign_key THEN Ret("ok", "no-sign-key")
        ELSE IF ~cfg.gpg_client THEN Ret("ok", "no-gpg-client")
        ELSE IF r = None THEN Ret("PublishError", "no-repository")
        ELSE IF ~unpub THEN
            IF pair \notin keyring THEN Ret("PublishError", "no-keyring")
            ELSE IF ~IsValidRepository(r) THEN Ret("PublishError", "invalid-repository")
            ELSE IF AllPublished(pair, r) THEN Ret("ok", "already-published")
            ELSE IF StableGateRefuses(pair, r, ignore)
                 THEN Ret("PublishError", "min-age")
            ELSE Go("pub_read")
        ELSE
            IF ~AllPublished(pair, r) THEN Ret("ok", "not-published")
            ELSE Go("unp_read")

\* The build directory the run is at.
CurDir == BuildDirs(run.pair)[run.i]

\* raise: the run ends with an exception.
Raise(err, note) == [run EXCEPT !.pc = "done", !.outcome = err, !.note = note]

\* End of one iteration of a loop over the build directories.
NextDir(pc) ==
    IF run.i < Len(BuildDirs(run.pair))
    THEN [run EXCEPT !.pc = pc, !.i = run.i + 1, !.j = 1, !.k = 1,
                     !.info = NoInfo, !.casc = <<>>, !.tgt = PyStr(None), !.ret = None]
    ELSE [run EXCEPT !.pc = "done", !.outcome = "ok", !.note = "completed"]

(***************************************************************************)
(* ArchlinuxPublishPlugin.unpublish(executor, directory, repository).      *)
(* run.tgt is the repository_publish value it was called with and run.ret  *)
(* the caller to return to: the cascade of a publish, or an unpublish run. *)
(***************************************************************************)
\* unpublish() returns to its caller.
UnpublishReturn ==
    IF run.ret = "cascade"
    THEN IF run.k < Len(run.casc)
         THEN [run EXCEPT !.pc = "unpub_call", !.k = run.k + 1, !.j = 1,
                          !.tgt = PyDict(run.casc[run.k + 1])]
         ELSE [run EXCEPT !.pc = "pub_verify", !.j = 1]
    ELSE [run EXCEPT !.pc = "unp_save", !.j = 1]

\* Whether `if not (target_dir / "pkgs/qubes.db").exists:` takes its branch:
\* .exists is a bound method, never called, so the test is always false.
IndexMissingTest(dir) == ~TRUE

\* Lines 119-150: read the build record; nothing to do without packages.
UnpublishCall ==
    /\ run.pc = "unpub_call"
    /\ run' = IF ~buildinfo[CurDir].present \/ PkgsOf(CurDir) = <<>>
              THEN UnpublishReturn
              ELSE IF IndexMissingTest(TargetDir(run.tgt))
              THEN UnpublishReturn
              ELSE [run EXCEPT !.pc = "unpub_files", !.j = 1]
    /\ UNCHANGED <<now, storeVars, repoVars, orch, snap, ncmds, susp>>

\* Lines 151-161, one package: unlink the package and its signature.
UnpublishFiles ==
    /\ run.pc = "unpub_files"
    /\ LET dir == TargetDir(run.tgt)
           pkg == PkgsOf(CurDir)[run.j]
       IN  /\ files' = files \ {<<dir, pkg>>}
           /\ sigs' = sigs \ {<<dir, pkg>>}
    /\ run' = IF run.j < Len(PkgsOf(CurDir))
              THEN [run EXCEPT !.j = run.j + 1]
              ELSE [run EXCEPT !.pc = "unpub_exec"]
    /\ UNCHANGED <<now, storeVars, dbs, indexed, orch, snap, ncmds, susp>>

\* The packages named by the command list handed to the executor: cmd is
\* reassigned (cmd = [...]) for every package, so only the last one is left.
CmdPackages(pkgs) == {pkgs[Len(pkgs)]}

\* Line 162: executor.run(cmd) of repo-remove; ExecutorError -> PublishError.
UnpublishExec ==
    /\ run.pc = "unpub_exec"
    /\ \E ok \in BOOLEAN :
          IF ok
          THEN /\ indexed' = indexed \
                      {<<TargetDir(run.tgt), p>> : p \in CmdPackages(PkgsOf(CurDir))}
               /\ run' = [UnpublishReturn EXCEPT
                             !.execd = run.execd \cup {CurDir},
                             !.removed = run.removed \cup
                                 {<<TargetDir(run.tgt), p>> :
                                     p \in CmdPackages(PkgsOf(CurDir))}]
          ELSE /\ indexed' = indexed
               /\ run' = [Raise("PublishError", "repo-remove")
                             EXCEPT !.execd = run.execd \cup {CurDir}]
    /\ UNCHANGED <<now, storeVars, files, sigs, dbs, orch, snap, ncmds, susp>>

(***************************************************************************)
(* ArchlinuxPublishPlugin.publish(executor, directory, keyring_dir,        *)
(* repository_publish), called with the requested channel.                 *)
(***************************************************************************)
\* PublishVerify with the failure of the signature check ignored: the
\* packages are linked although gpg2 --verify failed.
PublishVerifyIgnored ==
    /\ run.pc = "pub_verify"
    /\ IF ~buildinfo[CurDir].present \/ PkgsOf(CurDir) = <<>>
       THEN run' = [run EXCEPT !.pc = "pub_save", !.okpub = run.okpub \cup {CurDir}]
       ELSE \E ok \in BOOLEAN :
               run' = IF ok
                      THEN [run EXCEPT !.pc = "pub_files", !.j = 1,
                                       !.execd = run.execd \cup {CurDir},
                                       !.verified = run.verified \cup {CurDir}]
                      ELSE [run EXCEPT !.pc = "pub_files", !.j = 1,
                                       !.execd = run.execd \cup {CurDir}]
    /\ UNCHANGED <<now, storeVars, repoVars, orch, snap, ncmds, susp>>

\* Lines 58-92: read the build record, verify the signatures.
PublishVerify ==
    /\ run.pc = "pub_verify"
    /\ IF ~buildinfo[CurDir].present \/ PkgsOf(CurDir) = <<>>
       THEN run' = [run EXCEPT !.pc = "pub_save", !.okpub = run.okpub \cup {CurDir}]
       ELSE \E ok \in BOOLEAN :
               run' = IF ok
                      THEN [run EXCEPT !.pc = "pub_files", !.j = 1,
                                       !.execd = run.execd \cup {CurDir},
                                       !.verified = run.verified \cup {CurDir}]
                      ELSE [Raise("PublishError", "signatures")
                              EXCEPT !.execd = run.execd \cup {CurDir}]
    /\ UNCHANGED <<now, storeVars, repoVars, orch, snap, ncmds, susp>>

\* Lines 104-111, one package: unlink the target, link the package, link the
\* signature.  os.link raises FileExistsError when the signature is there.
PublishFiles ==
    /\ run.pc = "pub_files"
    /\ LET dir == TargetDir(PyStr(run.repo))
           pkg == PkgsOf(CurDir)[run.j]
       IN  /\ files' = files \cup {<<dir, pkg>>}
           /\ IF <<dir, pkg>> \in sigs
              THEN /\ sigs' = sigs
                   /\ run' = Raise("FileExistsError", "link-signature")
              ELSE /\ sigs' = sigs \cup {<<dir, pkg>>}
                   /\ run' = IF run.j < Len(PkgsOf(CurDir))
                             THEN [run EXCEPT !.j = run.j + 1]
                             ELSE [run EXCEPT !.pc = "pub_exec"]
    /\ UNCHANGED <<now, storeVars, dbs, indexed, orch, snap, ncmds, susp>>

\* PublishExec with the ExecutorError swallowed: the run goes on to save the
\* record although repo-add failed.
PublishExecSwallow ==
    /\ run.pc = "pub_exec"
    /\ LET dir == TargetDir(PyStr(run.repo))
       IN  \E ok \in BOOLEAN :
              IF ok
              THEN /\ dbs' = dbs \cup {dir}
                   /\ indexed' = indexed \cup
                          {<<dir, p>> : p \in CmdPackages(PkgsOf(CurDir))}
                   /\ run' = [run EXCEPT !.pc = "pub_save",
                                         !.okpub = run.okpub \cup {CurDir}]
              ELSE /\ UNCHANGED <<dbs, indexed>>
                   /\ run' = [run EXCEPT !.pc = "pub_save"]
    /\ UNCHANGED <<now, storeVars, files, sigs, orch, snap, ncmds, susp>>

\* Line 112: executor.run(cmd) of repo-add, which creates the index when it
\* is missing; ExecutorError -> PublishError.
PublishExec ==
    /\ run.pc = "pub_exec"
    /\ LET dir == TargetDir(PyStr(run.repo))
       IN  \E ok \in BOOLEAN :
              IF ok
              THEN /\ dbs' = dbs \cup {dir}
                   /\ indexed' = indexed \cup
                          {<<dir, p>> : p \in CmdPackages(PkgsOf(CurDir))}
                   /\ run' = [run EXCEPT !.pc = "pub_save",
                                         !.okpub = run.okpub \cup {CurDir}]
              ELSE /\ UNCHANGED <<dbs, indexed>>
                   /\ run' = Raise("PublishError", "repo-add")
    /\ UNCHANGED <<now, storeVars, files, sigs, orch, snap, ncmds, susp>>

(***************************************************************************)
(* ArchlinuxPublishPlugin.run, the publish loop (lines 250-300).           *)
(***************************************************************************)
\* PublishRead without the check of the build record (lines 261-264).
PublishReadNoCheck ==
    /\ run.pc = "pub_read"
    /\ LET build_info == buildinfo[CurDir]
           publish_info == pubinfo[CurDir]
       IN  run' =
             IF publish_info.present /\ build_info.hash # publish_info.hash
             THEN IF publish_info.rp = <<>>
                  THEN [run EXCEPT !.pc = "pub_verify", !.info = build_info]
                  ELSE [run EXCEPT !.pc = "unpub_call", !.info = build_info,
                                   !.casc = publish_info.rp, !.k = 1,
                                   !.tgt = PyDict(publish_info.rp[1]),
                                   !.ret = "cascade"]
             ELSE [run EXCEPT !.pc = "pub_verify",
                              !.info = IF publish_info.present
                                       THEN publish_info ELSE build_info]
    /\ UNCHANGED <<now, storeVars, repoVars, orch, snap, ncmds, susp>>

\* PublishRead that goes on from the previous publish record whenever there
\* is one, whatever its source-hash.
PublishReadKeepInfo ==
    /\ run.pc = "pub_read"
    /\ LET build_info == buildinfo[CurDir]
           publish_info == pubinfo[CurDir]
       IN  run' =
             IF ~build_info.present
             THEN Raise("PublishError", "no-build-info")
             ELSE IF publish_info.present /\ build_info.hash # publish_info.hash
             THEN IF publish_info.rp = <<>>
                  THEN [run EXCEPT !.pc = "pub_verify", !.info = publish_info]
                  ELSE [run EXCEPT !.pc = "unpub_call", !.info = publish_info,
                                   !.casc = publish_info.rp, !.k = 1,
                                   !.tgt = PyDict(publish_info.rp[1]),
                                   !.ret = "cascade"]
             ELSE [run EXCEPT !.pc = "pub_verify",
                              !.info = IF publish_info.present
                                       THEN publish_info ELSE build_info]
    /\ UNCHANGED <<now, storeVars, repoVars, orch, snap, ncmds, susp>>

\* Lines 250-282: read both records; without a build record raise; when the
\* publish record was made from another source-hash, unpublish every entry
\* of its repository-publish list (the entry itself is passed on).
PublishRead ==
    /\ run.pc = "pub_read"
    /\ LET build_info == buildinfo[CurDir]
           publish_info == pubinfo[CurDir]
       IN  run' =
             IF ~build_info.present
             THEN Raise("PublishError", "no-build-info")
             ELSE IF publish_info.present /\ build_info.hash # publish_info.hash
             THEN IF publish_info.rp = <<>>
                  THEN [run EXCEPT !.pc = "pub_verify", !.info = build_info]
                  ELSE [run EXCEPT !.pc = "unpub_call", !.info = build_info,
                                   !.casc = publish_info.rp, !.k = 1,
                                   !.tgt = PyDict(publish_info.rp[1]),
                                   !.ret = "cascade"]
             ELSE [run EXCEPT !.pc = "pub_verify",
                              !.info = IF publish_info.present
                                       THEN publish_info ELSE build_info]
    /\ UNCHANGED <<now, storeVars, repoVars, orch, snap, ncmds, susp>>

\* Lines 292-300: append the entry to info and save it as the publish record.
PublishSave ==
    /\ run.pc = "pub_save"
    /\ Len(run.info.rp) < MaxEntries
    /\ pubinfo' = [pubinfo EXCEPT ![CurDir] =
                      Info(run.info.hash, Append(run.info.rp, Entry(run.repo, now)))]
    /\ run' = NextDir("pub_read")
    /\ UNCHANGED <<now, buildinfo, keyring, repoVars, orch, snap, ncmds, susp>>

(***************************************************************************)
(* ArchlinuxPublishPlugin.run, the unpublish loop (lines 315-346).         *)
(***************************************************************************)
\* Lines 315-327: read the publish record and call unpublish().
UnpublishRead ==
    /\ run.pc = "unp_read"
    /\ run' = [run EXCEPT !.pc = "unpub_call", !.info = pubinfo[CurDir],
                          !.tgt = PyStr(run.repo), !.ret = "unpublish", !.j = 1]
    /\ UNCHANGED <<now, storeVars, repoVars, orch, snap, ncmds, susp>>

\* UnpublishSave that saves the reduced record even when nothing is left.
UnpublishSaveKeepEmpty ==
    /\ run.pc = "unp_save"
    /\ pubinfo' = [pubinfo EXCEPT ![CurDir] =
                      Info(run.info.hash, SeqFilterOut(run.info.rp, run.repo))]
    /\ run' = NextDir("unp_read")
    /\ UNCHANGED <<now, buildinfo, keyring, repoVars, orch, snap, ncmds, susp>>

\* Lines 331-346: drop the channel's entries; save what is left or delete.
UnpublishSave ==
    /\ run.pc = "unp_save"
    /\ LET left == SeqFilterOut(run.info.rp, run.repo)
       IN  pubinfo' = [pubinfo EXCEPT ![CurDir] =
                          IF left # <<>> THEN Info(run.info.hash, left) ELSE NoInfo]
    /\ run' = NextDir("unp_read")
    /\ UNCHANGED <<now, buildinfo, keyring, repoVars, orch, snap, ncmds, susp>>

(***************************************************************************)
(* cli_package.py: _component_stage and _all_package_stage.                *)
(* orch.si, ci, di, gi are the positions of the loops over the stages, the *)
(* components, the distributions and the plugins of the chain; began and   *)
(* ended record the plugin runs <<stage, pair, plugin>> of the command.    *)
(***************************************************************************)
\* NextPosition with the loop over the stages inside the loop over the
\* pairs: every stage of a pair runs before the next pair starts.
NextPositionPairMajor(o) ==
    IF o.gi < Len(PluginChain) THEN [o EXCEPT !.gi = o.gi + 1]
    ELSE IF o.mode = "all" /\ o.si < Len(STAGES)
         THEN [o EXCEPT !.si = o.si + 1, !.gi = 1]
    ELSE IF o.di < Len(Distributions)
         THEN [o EXCEPT !.di = o.di + 1, !.gi = 1,
                        !.si = IF o.mode = "all" THEN 1 ELSE o.si]
    ELSE IF o.ci < Len(Components)
         THEN [o EXCEPT !.ci = o.ci + 1, !.di = 1, !.gi = 1,
                        !.si = IF o.mode = "all" THEN 1 ELSE o.si]
    ELSE [o EXCEPT !.status = "ok"]

\* The position after plugin.run returned normally: the next plugin, else
\* the next distribution, else the next component, else (for `all`) the
\* next stage; the command is over when the loops are exhausted.
NextPosition(o) ==
    IF o.gi < Len(PluginChain) THEN [o EXCEPT !.gi = o.gi + 1]
    ELSE IF o.di < Len(Distributions) THEN [o EXCEPT !.di = o.di + 1, !.gi = 1]
    ELSE IF o.ci < Len(Components) THEN [o EXCEPT !.ci = o.ci + 1, !.di = 1, !.gi = 1]
    ELSE IF o.mode = "all" /\ o.si < Len(STAGES)
         THEN [o EXCEPT !.si = o.si + 1, !.ci = 1, !.di = 1, !.gi = 1]
    ELSE [o EXCEPT !.status = "ok"]

\* What the command does when plugin.run raised: nothing catches the
\* exception, it leaves the loops and the command fails.
OnPluginError(o) == [o EXCEPT !.status = "failed"]

CurInvocation(o) == <<o.si, Pair(o.ci, o.di), PluginChain[o.gi]>>

\* plugin.run returned (ok) or raised.
AfterPlugin(o, ok) ==
    IF ok
    THEN NextPosition([o EXCEPT !.ended = o.ended \cup {CurInvocation(o)}])
    ELSE OnPluginError(o)

\* `package all`
CmdAll ==
    /\ orch.mode = "idle"
    /\ ncmds < MaxCmds
    /\ \E cfg \in ConfigSet :
          orch' = [IdleOrch EXCEPT !.mode = "all", !.status = "running", !.cfg = cfg]
    /\ ncmds' = ncmds + 1
    /\ UNCHANGED <<now, storeVars, repoVars, run, snap, susp>>

\* `package fetch|prep|build|post|verify|sign|publish`
CmdStage ==
    /\ orch.mode = "idle"
    /\ ncmds < MaxCmds
    /\ \E s \in 1..Len(STAGES) :
          \E cfg \in IF STAGES[s] = "publish" THEN ConfigSet ELSE {FullCfg} :
             orch' = [IdleOrch EXCEPT !.mode = "stage", !.status = "running",
                                      !.cfg = cfg, !.si = s]
    /\ ncmds' = ncmds + 1
    /\ UNCHANGED <<now, storeVars, repoVars, run, snap, susp>>

(***************************************************************************)
(* run(stage) of the other plugins of the chain (source, build, sign).     *)
(* It does nothing unless the plugin acts on the stage.  The build plugin  *)
(* writes the build record of the build directories of the pair, one after *)
(* the other, and may fail on any of them; the sign plugin creates the     *)
(* sign artifacts directory holding the keyring.                           *)
(***************************************************************************)
\* Build records after the build plugin wrote the first n directories.
BuildWritten(pair, n, h) ==
    [b \in Basenames |->
        IF \E m \in 1..n : BuildDirs(pair)[m] = b THEN Info(h, <<>>) ELSE buildinfo[b]]

\* Line 77 for a plugin other than the publish plugin: the whole call.
InvokeOther ==
    /\ orch.status = "running"
    /\ orch.mode \in {"all", "stage"}
    /\ run.pc = "idle"
    /\ PluginChain[orch.gi] # "publish"
    /\ LET pair == Pair(orch.ci, orch.di)
           stage == STAGES[orch.si]
           plugin == PluginChain[orch.gi]
           o == [orch EXCEPT !.began = orch.began \cup {CurInvocation(orch)}]
       IN  IF stage \notin PluginStages(plugin)
           THEN /\ orch' = AfterPlugin(o, TRUE)
                /\ UNCHANGED <<buildinfo, keyring>>
           ELSE IF plugin = "build" /\ stage = "build"
           THEN \E n \in 0..Len(BuildDirs(pair)), h \in Hashes :
                   /\ buildinfo' = BuildWritten(pair, n, h)
                   /\ orch' = AfterPlugin(o, n = Len(BuildDirs(pair)))
                   /\ UNCHANGED keyring
           ELSE \E ok \in BOOLEAN :
                   /\ keyring' = IF ok /\ plugin = "sign"
                                 THEN keyring \cup {pair} ELSE keyring
                   /\ orch' = AfterPlugin(o, ok)
                   /\ UNCHANGED buildinfo
    /\ UNCHANGED <<now, pubinfo, repoVars, run, snap, ncmds, susp>>

\* Line 77 for the publish plugin: plugin.run(stage=stage_name), every other
\* argument of run() at its default.
InvokePublish ==
    /\ orch.status = "running"
    /\ orch.mode \in {"all", "stage"}
    /\ run.pc = "idle"
    /\ PluginChain[orch.gi] = "publish"
    /\ run' = Preflight(Pair(orch.ci, orch.di), STAGES[orch.si], orch.cfg,
                        None, FALSE, FALSE)
    /\ orch' = [orch EXCEPT !.began = orch.began \cup {CurInvocation(orch)}]
    /\ snap' = Snapshot
    /\ UNCHANGED <<now, storeVars, repoVars, ncmds, susp>>

\* The publish plugin's run returned or raised inside _component_stage.
PluginReturn ==
    /\ orch.status = "running"
    /\ orch.mode \in {"all", "stage"}
    /\ run.pc = "done"
    /\ orch' = AfterPlugin(orch, run.outcome = "ok")
    /\ run' = IdleRun
    /\ snap' = NoSnap
    /\ UNCHANGED <<now, storeVars, repoVars, ncmds, susp>>

\* The command exits (status 0 or not).
CmdExit ==
    /\ orch.mode \in {"all", "stage"}
    /\ orch.status \in {"ok", "failed"}
    /\ orch' = IdleOrch
    /\ UNCHANGED <<now, storeVars, repoVars, run, snap, ncmds, susp>>

(***************************************************************************)
(* Direct calls of ArchlinuxPublishPlugin.run(stage, repository_publish,   *)
(* ignore_min_age, unpublish) for one pair.                                *)
(***************************************************************************)
\* The pairs direct calls are made for.
ApiPairs == {Pair(1, 1)}

\* The arguments and configurations of a direct call: every channel
\* argument under the full configuration, and each deficient configuration
\* with the channel argument left out.
ApiInputs ==
    {[cfg |-> FullCfg, rp |-> rp, ignore |-> FALSE, unpub |-> u] :
        rp \in RepoArgs, u \in BOOLEAN}
    \cup {[cfg |-> FullCfg, rp |-> StableChannel, ignore |-> TRUE, unpub |-> FALSE]}
    \cup {[cfg |-> c, rp |-> None, ignore |-> FALSE, unpub |-> u] :
             c \in ConfigSet \ {FullCfg}, u \in BOOLEAN}

ApiRun ==
    /\ orch.mode = "idle"
    /\ ncmds < MaxRuns
    /\ \E pair \in ApiPairs, in \in ApiInputs :
          run' = Preflight(pair, "publish", in.cfg, in.rp, in.ignore, in.unpub)
    /\ orch' = [IdleOrch EXCEPT !.mode = "api", !.status = "running"]
    /\ snap' = Snapshot
    /\ ncmds' = ncmds + 1
    /\ UNCHANGED <<now, storeVars, repoVars, susp>>

\* The direct call returned or raised.
ApiReturn ==
    /\ orch.mode = "api"
    /\ run.pc = "done"
    /\ orch' = IdleOrch
    /\ run' = IdleRun
    /\ snap' = NoSnap
    /\ UNCHANGED <<now, storeVars, repoVars, ncmds, susp>>

\* The build stage ran again for the pair after its sources changed.
Rebuild ==
    /\ orch.mode = "idle"
    /\ \E pair \in ApiPairs, h \in Hashes :
          /\ \A n \in 1..Len(BuildDirs(pair)) : buildinfo[BuildDirs(pair)[n]].present
          /\ \E n \in 1..Len(BuildDirs(pair)) : buildinfo[BuildDirs(pair)[n]].hash # h
          /\ buildinfo' = BuildWritten(pair, Len(BuildDirs(pair)), h)
    /\ UNCHANGED <<now, pubinfo, keyring, repoVars, orch, run, snap, ncmds, susp>>

\* Days pass between two commands.
Tick ==
    /\ orch.mode = "idle"
    /\ \E d \in DaySteps :
          /\ now + d <= MaxDay
          /\ now' = now + d
    /\ UNCHANGED <<storeVars, repoVars, orch, run, snap, ncmds, susp>>

PublishSteps ==
    \/ PublishRead
    \/ PublishVerify
    \/ PublishFiles
    \/ PublishExec
    \/ PublishSave
    \/ UnpublishCall
    \/ UnpublishFiles
    \/ UnpublishExec

(***************************************************************************)
(* Spec: direct runs of the publish plugin, from any state the build and   *)
(* sign stages can have left.                                              *)
(***************************************************************************)
Init ==
    /\ now = 0
    /\ buildinfo \in [Basenames -> {NoInfo, Info("H1", <<>>)}]
    /\ buildinfo["b3"] = NoInfo
    /\ pubinfo = [b \in Basenames |-> NoInfo]
    /\ keyring \in SUBSET ApiPairs
    /\ files = {}
    /\ sigs = {}
    /\ dbs = {}
    /\ indexed = {}
    /\ orch = IdleOrch
    /\ run = IdleRun
    /\ snap = NoSnap
    /\ ncmds = 0
    /\ susp = IdleRun

Next ==
    \/ ApiRun
    \/ ApiReturn
    \/ Rebuild
    \/ Tick
    \/ PublishSteps
    \/ UnpublishRead
    \/ UnpublishSave

Spec == Init /\ [][Next]_vars

(***************************************************************************)
(* SpecCli: the commands of the `package` group, from the empty store.     *)
(***************************************************************************)
InitCli ==
    /\ now = 0
    /\ buildinfo = [b \in Basenames |-> NoInfo]
    /\ pubinfo = [b \in Basenames |-> NoInfo]
    /\ keyring = {}
    /\ files = {}
    /\ sigs = {}
    /\ dbs = {}
    /\ indexed = {}
    /\ orch = IdleOrch
    /\ run = IdleRun
    /\ snap = NoSnap
    /\ ncmds = 0
    /\ susp = IdleRun

NextCli ==
    \/ CmdAll
    \/ CmdStage
    \/ InvokeOther
    \/ InvokePublish
    \/ PluginReturn
    \/ CmdExit
    \/ PublishSteps

SpecCli == InitCli /\ [][NextCli]_vars

(***************************************************************************)
(* SpecConc: two processes each make one direct run of the publish plugin  *)
(* for the same pair.  run is the run of the process that is scheduled,    *)
(* susp the run of the other; run() takes no lock, so the processes may be *)
(* switched between any two steps.  The store is empty or holds the pair   *)
(* as a completed publish to security-testing left it.                     *)
(***************************************************************************)
ConcPair == Pair(1, 1)

ConcDirs == {BuildDirs(ConcPair)[n] : n \in 1..Len(BuildDirs(ConcPair))}

\* The records a completed publish of ConcPair to channel c on day 0 leaves.
PublishedRecords(c) ==
    [b \in Basenames |->
        IF b \in ConcDirs THEN Info("H1", <<Entry(c, 0)>>) ELSE NoInfo]

\* The files (and signatures) such a publish links.
PublishedFiles(c) ==
    UNION {{<<ChannelDir(c), PkgsOf(b)[m]>> : m \in 1..Len(PkgsOf(b))} : b \in ConcDirs}

InitConc ==
    /\ now = 0
    /\ buildinfo = [b \in Basenames |->
                        IF b \in ConcDirs THEN Info("H1", <<>>) ELSE NoInfo]
    /\ keyring = {ConcPair}
    /\ \/ /\ pubinfo = [b \in Basenames |-> NoInfo]
          /\ files = {} /\ sigs = {} /\ dbs = {} /\ indexed = {}
       \/ /\ pubinfo = PublishedRecords("security-testing")
          /\ files = PublishedFiles("security-testing")
          /\ sigs = PublishedFiles("security-testing")
          /\ dbs = {ChannelDir("security-testing")}
          /\ indexed = {<<ChannelDir("security-testing"), p>> :
                           p \in UNION {CmdPackages(PkgsOf(b)) : b \in ConcDirs}}
    /\ orch = IdleOrch
    /\ run = IdleRun
    /\ snap = NoSnap
    /\ ncmds = 0
    /\ susp = IdleRun

\* The scheduled process calls run(stage="publish", repository_publish,
\* unpublish).
ConcRun ==
    /\ run.pc = "idle"
    /\ \E rp \in StagingChannels, unpub \in BOOLEAN :
          run' = Preflight(ConcPair, "publish", FullCfg, rp, FALSE, unpub)
    /\ UNCHANGED <<now, storeVars, repoVars, orch, snap, ncmds, susp>>

\* The other process is scheduled.
Switch ==
    /\ run # susp
    /\ run' = susp
    /\ susp' = run
    /\ UNCHANGED <<now, storeVars, repoVars, orch, snap, ncmds>>

NextConc ==
    \/ ConcRun
    \/ Switch
    \/ PublishSteps
    \/ UnpublishRead
    \/ UnpublishSave

SpecConc == InitConc /\ [][NextConc]_vars

\* C11: two concurrent publish runs of one pair to two different channels
\* that both returned normally leave both channels in the repository-publish
\* list of every basename of the pair (no lost update).
C11_NoLostUpdate ==
    ( /\ run.pc = "done" /\ susp.pc = "done"
      /\ run.note = "completed" /\ susp.note = "completed"
      /\ ~run.unpub /\ ~susp.unpub
      /\ run.repo # susp.repo )
    => \A b \in ConcDirs :
          {run.repo, susp.repo} \subseteq ChannelNames(pubinfo[b].rp)

(***************************************************************************)
(* Claims about the commands of the `package` group (SpecCli).             *)
(***************************************************************************)
\* Every plugin run <<stage, pair, plugin>> a command over all pairs makes
\* for stage index s.
StageRuns(s) == {<<s, pair, plugin>> : pair \in Pairs,
                                       plugin \in {PluginChain[g] : g \in 1..Len(PluginChain)}}

\* C1: in `package all` the stages run in the order of STAGES (fetch, prep,
\* build, post, verify, sign, publish), and a plugin run of a stage has begun
\* only when every plugin run of every earlier stage, for every pair, has
\* completed.
C1_StagesInOrderAcrossPairs ==
    orch.mode = "all" =>
        /\ {inv[1] : inv \in orch.began} \in {1..orch.si, 1..(orch.si - 1)}
        /\ \A inv \in orch.began :
              \A s \in 1..(inv[1] - 1) : StageRuns(s) \subseteq orch.ended
        /\ run.pc # "idle" => /\ run.stage = STAGES[orch.si]
                              /\ \A s \in 1..(orch.si - 1) :
                                    StageRuns(s) \subseteq orch.ended

\* C1 witness: `package all` went through every stage for both pairs and
\* published the build directories of both.
C1_Witness ==
    /\ orch.mode = "all"
    /\ orch.status = "ok"
    /\ \A s \in 1..Len(STAGES) : StageRuns(s) \subseteq orch.ended
    /\ pubinfo["b1"].present
    /\ pubinfo["b3"].present

\* The pairs that follow pair (ci, di) in the loops of _component_stage.
PairsAfter(ci, di) ==
    {Pair(c, d) : c \in {x \in 1..Len(Components) : x > ci},
                  d \in 1..Len(Distributions)}
    \cup {Pair(ci, d) : d \in {x \in 1..Len(Distributions) : x > di}}

\* C10: when a plugin run fails for a pair in a stage, the plugin chains of
\* the pairs that follow it are still invoked for that stage, and the records
\* of the other pairs stay as they were.
C10_FollowingPairsProcessed ==
    orch.status = "failed" =>
        \A pair \in PairsAfter(orch.ci, orch.di) :
            \E inv \in orch.began : inv[1] = orch.si /\ inv[2] = pair

(***************************************************************************)
(* Claims about runs of the publish plugin (Spec).  snap is the store and  *)
(* the repository as the run found them.                                   *)
(***************************************************************************)
\* A run of the publish plugin for the publish stage is in progress or has
\* just returned.
InPublishPluginRun ==
    /\ run.pc # "idle"
    /\ run.plugin = "publish"
    /\ run.stage = "publish"

\* The run went past the checks made before the loops (lines 183-248 and
\* 302-313): it is in a loop, or it ended there.
PastChecks ==
    \/ run.pc \notin {"idle", "done"}
    \/ /\ run.pc = "done"
       /\ run.note \in {"completed", "no-build-info", "signatures", "repo-add",
                        "repo-remove", "link-signature"}

RunDirs == BuildDirs(run.pair)

\* The run is done with the n-th build directory: it went on to the next
\* one, or it returned normally.
DirCompleted(n) ==
    \/ run.i > n
    \/ run.pc = "done" /\ run.outcome = "ok" /\ run.note = "completed"

\* What the files, signatures and index entries F hold of basename b in
\* channel c.
Of(F, b, c) ==
    {x \in F : x[1] = ChannelDir(c) /\ \E n \in 1..Len(PkgsOf(b)) : x[2] = PkgsOf(b)[n]}

\* Package files, signatures and index entries of basename b in channel c.
InChannel(b, c) == Of(files \cup sigs \cup indexed, b, c)

\* The run found the publish record of b made from another source-hash than
\* the build record.
StaleAtStart(b) ==
    /\ snap.pubinfo[b].present
    /\ snap.buildinfo[b].present
    /\ snap.pubinfo[b].hash # snap.buildinfo[b].hash

\* C2: a publish that finds the publish record of a basename listing two
\* channels under another source-hash than the build record removes the
\* basename's packages from the directory and index of both channels, adds
\* them to the requested channel and leaves repository-publish equal to the
\* one entry {requested channel, now}.  (Failures of the signature check and
\* of repo-add are set aside.)
C2_HashInvalidationCascade ==
    \A n \in 1..Len(RunDirs) :
        LET b == RunDirs[n]
            stale == ChannelNames(snap.pubinfo[b].rp)
        IN  ( /\ InPublishPluginRun /\ ~run.unpub /\ PastChecks
              /\ StaleAtStart(b)
              /\ Cardinality(stale) >= 2
              /\ \/ run.i > n
                 \/ /\ run.pc = "done" /\ run.i = n
                    /\ run.note \notin {"signatures", "repo-add"} )
            => /\ \A c \in stale \ {run.repo} : InChannel(b, c) = {}
               /\ \A m \in 1..Len(PkgsOf(b)) :
                     <<ChannelDir(run.repo), PkgsOf(b)[m]>> \in files \cap sigs
               /\ pubinfo[b] = Info(buildinfo[b].hash, <<Entry(run.repo, now)>>)

\* Whether the record of b the run found carries a staging-channel entry at
\* least MinAgeDays whole days old.
SoakedAtStart(b) ==
    \E n \in 1..Len(snap.pubinfo[b].rp) :
        /\ snap.pubinfo[b].rp[n].name \in StagingChannels
        /\ now - snap.pubinfo[b].rp[n].ts >= MinAgeDays

\* The checks a publish to the stable channel passes before the gate: the
\* stage has packages, a signing key, a GPG client and a keyring, and some
\* build directory is not yet listed in the stable channel.
ReachesStableGate ==
    /\ InPublishPluginRun
    /\ ~run.unpub
    /\ run.repo = StableChannel
    /\ run.cfg.has_pkgs /\ run.cfg.sign_key /\ run.cfg.gpg_client
    /\ run.pair \in keyring
    /\ \E n \in 1..Len(RunDirs) :
          StableChannel \notin ChannelNames(snap.pubinfo[RunDirs[n]].rp)

NothingChanged ==
    /\ pubinfo = snap.pubinfo
    /\ buildinfo = snap.buildinfo
    /\ files = snap.files
    /\ sigs = snap.sigs
    /\ dbs = snap.dbs
    /\ indexed = snap.indexed

\* C3: a publish to the stable channel without ignore_min_age is refused
\* with PublishError when a basename of the pair has no staging entry at
\* least MinAgeDays whole days old, and then no file, index or record is
\* changed for any basename; it is not refused for min-age when every
\* basename has such an entry (exactly MinAgeDays counts).
C3_StableGate ==
    (ReachesStableGate /\ ~run.ignore) =>
        IF \E n \in 1..Len(RunDirs) : ~SoakedAtStart(RunDirs[n])
        THEN /\ run.pc = "done"
             /\ run.outcome = "PublishError"
             /\ run.note = "min-age"
             /\ run.execd = {}
             /\ NothingChanged
        ELSE PastChecks

\* C3 witness: a basename published to a staging channel 3 days ago was
\* refused promotion to the stable channel.
C3_Witness ==
    /\ ReachesStableGate /\ ~run.ignore
    /\ run.pc = "done" /\ run.note = "min-age"
    /\ \E n \in 1..Len(RunDirs) :
          \E m \in 1..Len(snap.pubinfo[RunDirs[n]].rp) :
             /\ snap.pubinfo[RunDirs[n]].rp[m].name \in StagingChannels
             /\ now - snap.pubinfo[RunDirs[n]].rp[m].ts = 3

\* A basename published to a staging channel exactly MinAgeDays ago was
\* promoted to the stable channel.
C3_PromotedAtMinAge ==
    /\ ReachesStableGate /\ ~run.ignore
    /\ run.pc = "done" /\ run.outcome = "ok" /\ run.note = "completed"
    /\ \A n \in 1..Len(RunDirs) :
          /\ StableChannel \in ChannelNames(pubinfo[RunDirs[n]].rp)
          /\ \A m \in 1..Len(snap.pubinfo[RunDirs[n]].rp) :
                now - snap.pubinfo[RunDirs[n]].rp[m].ts <= MinAgeDays

\* C4: a publish of a basename to a channel it is already listed in leaves
\* the basename's files and index entries in the channel as they were, hands
\* no command to the executor for it and appends no second entry for the
\* channel to its repository-publish list.
C4_IdempotentPublish ==
    \A n \in 1..Len(RunDirs) :
        LET b == RunDirs[n]
        IN  ( /\ InPublishPluginRun /\ ~run.unpub
              /\ run.repo \in ChannelNames(snap.pubinfo[b].rp) )
            => /\ b \notin run.execd
               /\ Of(files, b, run.repo) = Of(snap.files, b, run.repo)
               /\ Of(sigs, b, run.repo) = Of(snap.sigs, b, run.repo)
               /\ Of(indexed, b, run.repo) = Of(snap.indexed, b, run.repo)
               /\ CountOf(pubinfo[b].rp, run.repo)
                    = CountOf(snap.pubinfo[b].rp, run.repo)

\* C5: a repository-publish list gains an entry only for the requested
\* channel of a publish run, and only once publish() returned normally for
\* the basename in that run (its packages linked and the index updated); when
\* the signature check or repo-add fails, the record of the basename is as
\* the run found it.
C5_EntryOnlyAfterSuccessfulPublish ==
    InPublishPluginRun =>
        /\ \A n \in 1..Len(RunDirs) :
              LET b == RunDirs[n]
                  dir == ChannelDir(run.repo)
              IN  /\ \A c \in ChannelNames(pubinfo[b].rp) :
                        CountOf(pubinfo[b].rp, c) > CountOf(snap.pubinfo[b].rp, c)
                            => ~run.unpub /\ c = run.repo /\ b \in run.okpub
                  /\ (~run.unpub /\ pubinfo[b] # snap.pubinfo[b])
                        => /\ b \in run.okpub
                           /\ pubinfo[b].rp[Len(pubinfo[b].rp)] = Entry(run.repo, now)
                           /\ \A m \in 1..Len(PkgsOf(b)) :
                                 <<dir, PkgsOf(b)[m]>> \in files \cap sigs
                           /\ \E m \in 1..Len(PkgsOf(b)) :
                                 <<dir, PkgsOf(b)[m]>> \in indexed
        /\ ( /\ run.pc = "done"
             /\ run.outcome = "PublishError"
             /\ run.note \in {"signatures", "repo-add"} )
              => pubinfo[RunDirs[run.i]] = snap.pubinfo[RunDirs[run.i]]

\* C5 witness: repo-add failed for a basename that was already published
\* elsewhere, and its record is as the run found it.
C5_Witness ==
    /\ InPublishPluginRun /\ ~run.unpub
    /\ run.pc = "done" /\ run.outcome = "PublishError" /\ run.note = "repo-add"
    /\ snap.pubinfo[RunDirs[run.i]].present
    /\ \A m \in 1..Len(PkgsOf(RunDirs[run.i])) :
          <<ChannelDir(run.repo), PkgsOf(RunDirs[run.i])[m]>> \in files

\* C6: an unpublish removes the channel's entry from the repository-publish
\* list of the basename; when nothing is left the record is deleted (reading
\* it returns empty), otherwise the record is saved with the other entries
\* as they were.
C6_RecordCleanup ==
    (InPublishPluginRun /\ run.unpub /\ PastChecks) =>
        \A n \in 1..Len(RunDirs) :
            LET b == RunDirs[n]
                NotRepo(e) == e.name # run.repo
                left == SelectSeq(snap.pubinfo[b].rp, NotRepo)
            IN  DirCompleted(n) =>
                   /\ run.repo \notin ChannelNames(pubinfo[b].rp)
                   /\ IF left = <<>>
                      THEN pubinfo[b] = NoInfo
                      ELSE pubinfo[b] = Info(snap.pubinfo[b].hash, left)

\* C6 witness: one unpublish run deleted the record of a basename listed
\* nowhere else and saved the reduced record of another.
C6_Witness ==
    /\ InPublishPluginRun /\ run.unpub
    /\ run.pc = "done" /\ run.outcome = "ok" /\ run.note = "completed"
    /\ \E n \in 1..Len(RunDirs) :
          snap.pubinfo[RunDirs[n]].present /\ pubinfo[RunDirs[n]] = NoInfo
    /\ \E n \in 1..Len(RunDirs) :
          /\ pubinfo[RunDirs[n]].present
          /\ Len(pubinfo[RunDirs[n]].rp) < Len(snap.pubinfo[RunDirs[n]].rp)

\* C7: an unpublish from a channel a basename of the pair is not listed in
\* raises nothing, hands no command to the executor, removes no file and
\* leaves every record as it was.
C7_IdempotentUnpublish ==
    ( /\ InPublishPluginRun /\ run.unpub
      /\ run.repo # None
      /\ \E n \in 1..Len(RunDirs) :
            run.repo \notin ChannelNames(snap.pubinfo[RunDirs[n]].rp) )
    => /\ run.pc = "done"
       /\ run.outcome = "ok"
       /\ run.execd = {}
       /\ NothingChanged

\* C7 witness: an unpublish from a channel one basename of the pair is listed
\* in and another is not returned "not published".
C7_Witness ==
    /\ InPublishPluginRun /\ run.unpub
    /\ run.pc = "done" /\ run.note = "not-published"
    /\ \E n \in 1..Len(RunDirs) :
          run.repo \in ChannelNames(snap.pubinfo[RunDirs[n]].rp)
    /\ files # {}

C9_PreconditionViolationsRaise ==
    ( /\ InPublishPluginRun
      /\ run.pc = "done"
      /\ run.cfg.has_pkgs
      /\ \/ ~run.cfg.sign_key
         \/ ~run.cfg.gpg_client
         \/ ~run.unpub /\ run.pair \notin keyring
         \/ ~run.unpub /\ run.repo \notin ValidChannels )
    => run.outcome # "ok"

(***************************************************************************)
(* Claims about publish() and unpublish() and the channel directories.     *)
(***************************************************************************)
\* C12: in every state, the intermediate states of publish and unpublish and
\* the states an executor failure leaves included, every package listed in
\* the index of a directory has its package file in that directory.
C12_IndexedPackageHasFile == indexed \subseteq files

\* C13: once publish() returned normally for a basename, every package of
\* its build record and its signature is linked in the channel's package
\* directory, the channel's index exists and lists every one of the packages.
C13_PublishMaterialization ==
    (InPublishPluginRun /\ ~run.unpub) =>
        \A b \in run.okpub :
            /\ ChannelDir(run.repo) \in dbs
            /\ \A m \in 1..Len(PkgsOf(b)) :
                  <<ChannelDir(run.repo), PkgsOf(b)[m]>> \in files \cap sigs \cap indexed

\* C14: once unpublish() returned normally for a basename in an unpublish
\* run, no package of its build record and no signature is left in the
\* channel's package directory, and every one of the packages was given to
\* repo-remove and is absent from the channel's index.
C14_UnpublishRemoval ==
    (InPublishPluginRun /\ run.unpub /\ PastChecks) =>
        \A n \in 1..Len(RunDirs) :
            LET b == RunDirs[n]
            IN  (DirCompleted(n) \/ (run.i = n /\ run.pc = "unp_save")) =>
                   /\ Of(files \cup sigs \cup indexed, b, run.repo) = {}
                   /\ \A m \in 1..Len(PkgsOf(b)) :
                         <<ChannelDir(run.repo), PkgsOf(b)[m]>> \in run.removed

\* C15: in a publish of a basename no package is linked before the
\* signatures of all its packages were verified; when the verification fails
\* the publish raises PublishError and the basename's files, signatures and
\* index entries in the channel and its publish record are as the run found
\* them.
C15_VerifyBeforeLink ==
    (InPublishPluginRun /\ ~run.unpub /\ PastChecks) =>
        /\ run.pc \in {"pub_files", "pub_exec"} => CurDir \in run.verified
        /\ \A n \in 1..Len(RunDirs) :
              LET b == RunDirs[n]
              IN  \/ b \in run.verified
                  \/ /\ Of(files, b, run.repo) = Of(snap.files, b, run.repo)
                     /\ Of(sigs, b, run.repo) = Of(snap.sigs, b, run.repo)
                     /\ Of(indexed, b, run.repo) = Of(snap.indexed, b, run.repo)
                     /\ pubinfo[b] = snap.pubinfo[b]
        /\ (run.pc = "done" /\ run.note = "signatures") =>
              /\ run.outcome = "PublishError"
              /\ CurDir \notin run.verified

\* C15 witness: after one basename was published, the signature check of the
\* next one failed and nothing of it is in the channel.
C15_Witness ==
    /\ InPublishPluginRun /\ ~run.unpub
    /\ run.pc = "done" /\ run.note = "signatures"
    /\ run.i = 2
    /\ RunDirs[1] \in run.okpub
    /\ Of(files, RunDirs[2], run.repo) = {}

\* C16: unpublish() called for a directory whose index does not exist
\* unlinks nothing and hands no command to the executor.
C16_UnpublishNoIndexNoop ==
    ~( /\ run.pc \in {"unpub_files", "unpub_exec"}
       /\ TargetDir(run.tgt) \notin dbs )

(***************************************************************************)
(* Claims about the publish records (Spec).                                *)
(***************************************************************************)
\* C17: the publish record a publish run saves for a basename carries the
\* source-hash of the build record, and its repository-publish list is the
\* new entry appended to the previous list when the previous record has the
\* same source-hash, and the new entry alone when there was no previous
\* record or one with another source-hash.
C17_SavedHashIsBuildHash ==
    (InPublishPluginRun /\ ~run.unpub /\ PastChecks) =>
        \A n \in 1..Len(RunDirs) :
            LET b == RunDirs[n]
                prev == snap.pubinfo[b]
                build == buildinfo[b]
            IN  DirCompleted(n) =>
                   /\ build = snap.buildinfo[b]
                   /\ pubinfo[b].present
                   /\ pubinfo[b].hash = build.hash
                   /\ pubinfo[b].rp =
                         (IF prev.present /\ prev.hash = build.hash
                          THEN prev.rp ELSE <<>>) \o <<Entry(run.repo, now)>>

\* C17 witness: a publish run found a record listing a channel under
\* another source-hash and saved the record under the build's source-hash.
C17_Witness ==
    /\ InPublishPluginRun /\ ~run.unpub
    /\ run.pc = "done" /\ run.outcome = "ok" /\ run.note = "completed"
    /\ \E n \in 1..Len(RunDirs) :
          /\ StaleAtStart(RunDirs[n])
          /\ snap.pubinfo[RunDirs[n]].rp # <<>>
          /\ pubinfo[RunDirs[n]].hash = buildinfo[RunDirs[n]].hash

\* A publish run appended its entry to a previous record of the same
\* source-hash.
C17_SameHashAppended ==
    /\ InPublishPluginRun /\ ~run.unpub
    /\ run.pc = "done" /\ run.outcome = "ok" /\ run.note = "completed"
    /\ \E n \in 1..Len(RunDirs) :
          /\ snap.pubinfo[RunDirs[n]].present
          /\ ~StaleAtStart(RunDirs[n])
          /\ Len(pubinfo[RunDirs[n]].rp) = 2

\* C18: the repository-publish list of a basename never holds two entries
\* for one channel.
C18_OneEntryPerChannel ==
    \A b \in Basenames : \A c \in ValidChannels : CountOf(pubinfo[b].rp, c) <= 1

\* C19: a basename a publish run without ignore_min_age listed in the
\* stable channel had, when the run began, a publish record of the build's
\* source-hash with a staging entry at least MinAgeDays old.
C19_SoakOfPromotedContent ==
    ( /\ InPublishPluginRun /\ ~run.unpub /\ PastChecks
      /\ run.repo = StableChannel /\ ~run.ignore ) =>
        \A n \in 1..Len(RunDirs) :
            (DirCompleted(n) /\ pubinfo[RunDirs[n]] # snap.pubinfo[RunDirs[n]]) =>
                /\ snap.pubinfo[RunDirs[n]].present
                /\ ~StaleAtStart(RunDirs[n])
                /\ SoakedAtStart(RunDirs[n])

\* C20: an unpublish run that returned normally leaves no basename of the
\* pair listed in the channel, and a publish run hands no command to the
\* executor for, and leaves the record of, a basename that was already
\* listed in the channel.
C20_PerBasenameState ==
    (InPublishPluginRun /\ run.repo \in ValidChannels) =>
        \A n \in 1..Len(RunDirs) :
            LET b == RunDirs[n]
            IN  /\ (run.unpub /\ run.pc = "done" /\ run.outcome = "ok")
                      => run.repo \notin ChannelNames(pubinfo[b].rp)
                /\ (~run.unpub /\ run.repo \in ChannelNames(snap.pubinfo[b].rp))
                      => b \notin run.execd /\ pubinfo[b] = snap.pubinfo[b]

====
